---- MODULE Spec2Model ----
(***************************************************************************)
(* A model of EEGModels.py: ten builder functions, each of which creates   *)
(* the nodes of a Keras computation graph one layer after another and      *)
(* returns a Model over them.                                              *)
(*                                                                         *)
(* A build call is a process: `call` holds the arguments it was entered    *)
(* with, `frame` its local variables (the parameters, rebound as the code  *)
(* rebinds them, the geometry table chosen by the layout flag and the      *)
(* references to nodes the code keeps), `layers` the graph nodes it has    *)
(* created so far in creation order, `pc` its position in the function     *)
(* and `result` what it returned or raised.  Two calls (a and b) run       *)
(* interleaved; `kernels_default` is the one object the calls share: the   *)
(* list bound to EEGNet_old's `kernels` parameter when the function was    *)
(* defined.                                                                *)
(*                                                                         *)
(* Numbers that are fractions in the code are scaled to integers:          *)
(* dropout rates and max_norm bounds in hundredths (0.5 -> 50, 2. -> 200), *)
(* BatchNormalization epsilon in units of 1e-5 and momentum in hundredths  *)
(* (the Keras defaults 1e-3 and 0.99 are 100 and 99), regRate in units of  *)
(* 1e-4.  A layer's auto-generated name is "" (only the names the code     *)
(* passes are kept).  Shapes leave out the batch axis, as Input(shape=..)  *)
(* does; axis numbers count the batch axis as 0, as Keras does.            *)
(***************************************************************************)
EXTENDS Integers, Sequences, FiniteSets, TLC

VARIABLES call, frame, pc, layers, result, kernels_default

vars == <<call, frame, pc, layers, result, kernels_default>>

Calls == {"a", "b"}

(***************************************************************************)
(* Bounds of the argument sets.                                            *)
(***************************************************************************)
MaxClasses == 2
MaxChans == 3
MaxSampleSteps == 3
MaxRateSteps == 2
MaxKernSteps == 2

ClassCounts == 1..MaxClasses
ChanCounts == 1..MaxChans
SampleCounts == {50 * k : k \in 1..MaxSampleSteps}
ChunkCounts == {8}
Rates == {25 * k : k \in 1..MaxRateSteps}
KernLengths == {32 * k : k \in 1..MaxKernSteps}
DropoutNames == {"Dropout", "SpatialDropout2D", "AlphaDropout"}

(***************************************************************************)
(* Shape arithmetic of the tensor library, as far as the builders rely on  *)
(* it.                                                                     *)
(***************************************************************************)
RECURSIVE Product(_)
Product(s) == IF s = <<>> THEN 1 ELSE Head(s) * Product(Tail(s))

RECURSIVE Sum(_)
Sum(s) == IF s = <<>> THEN 0 ELSE Head(s) + Sum(Tail(s))

\* Length of one axis after a convolution or pooling window of k, stride s.
ConvOut(n, k, s, padding) ==
    IF padding = "same" THEN (n + s - 1) \div s ELSE ((n - k) \div s) + 1

\* image_data_format of the session: channels_first on the default path (the
\* file's requirement (2)), channels_last on the cpu path, whose input shape
\* carries its singleton feature axis last.
DataFormat(cpu) == IF cpu THEN "channels_last" ELSE "channels_first"

Spatial(shape, df) ==
    IF df = "channels_first" THEN Tail(shape) ELSE SubSeq(shape, 1, Len(shape) - 1)

Features(shape, df) ==
    IF df = "channels_first" THEN Head(shape) ELSE shape[Len(shape)]

WithFeatures(sp, f, df) ==
    IF df = "channels_first" THEN <<f>> \o sp ELSE sp \o <<f>>

Windowed(shape, kernel, strides, padding, f, df) ==
    LET sp == Spatial(shape, df)
    IN  WithFeatures([i \in 1..Len(sp) |-> ConvOut(sp[i], kernel[i], strides[i], padding)],
                     f, df)

(***************************************************************************)
(* Layer constructors: what each Keras constructor call of the file is     *)
(* given, with the library's defaults for what it is not given.            *)
(***************************************************************************)
Layer(op) ==
    [op |-> op, name |-> "", filters |-> 0, kernel |-> <<>>, strides |-> <<>>,
     padding |-> "valid", use_bias |-> FALSE, constraint |-> 0, l1 |-> 0, l2 |-> 0,
     axis |-> -1, epsilon |-> 0, momentum |-> 0, depth_multiplier |-> 0,
     rate |-> 0, activation |-> "", dims |-> <<>>, shape |-> <<>>, in |-> <<>>]

Ones(kernel) == [i \in 1..Len(kernel) |-> 1]

Input(shape) == [Layer("Input") EXCEPT !.shape = shape]

Conv(op, filters, kernel, strides, padding, use_bias, constraint, l1, l2) ==
    [Layer(op) EXCEPT !.filters = filters, !.kernel = kernel, !.strides = strides,
                      !.padding = padding, !.use_bias = use_bias,
                      !.constraint = constraint, !.l1 = l1, !.l2 = l2,
                      !.activation = "linear"]

Conv2D(filters, kernel, padding, use_bias, constraint) ==
    Conv("Conv2D", filters, kernel, Ones(kernel), padding, use_bias, constraint, 0, 0)

Conv2DReg(filters, kernel, strides, padding, l1, l2) ==
    Conv("Conv2D", filters, kernel, strides, padding, TRUE, 0, l1, l2)

Conv3D(filters, kernel, strides) ==
    Conv("Conv3D", filters, kernel, strides, "valid", TRUE, 0, 0, 0)

\* DepthwiseConv2D built with padding='same'.
DepthwiseConv2D_same(kernel, use_bias, depth_multiplier, constraint) ==
    [Conv("DepthwiseConv2D", 0, kernel, Ones(kernel), "same", use_bias, constraint, 0, 0)
        EXCEPT !.depth_multiplier = depth_multiplier]

DepthwiseConv2D(kernel, use_bias, depth_multiplier, constraint) ==
    [Conv("DepthwiseConv2D", 0, kernel, Ones(kernel), "valid", use_bias, constraint, 0, 0)
        EXCEPT !.depth_multiplier = depth_multiplier]

SeparableConv2D(filters, kernel, use_bias, padding) ==
    [Conv("SeparableConv2D", filters, kernel, Ones(kernel), padding, use_bias, 0, 0, 0)
        EXCEPT !.depth_multiplier = 1]

BatchNormalizationWith(axis, epsilon, momentum) ==
    [Layer("BatchNormalization") EXCEPT !.axis = axis, !.epsilon = epsilon,
                                        !.momentum = momentum]

BatchNormalization(axis) == BatchNormalizationWith(axis, 100, 99)

Activation(f, name) == [Layer("Activation") EXCEPT !.activation = f, !.name = name]

Pooling(op, pool_size, strides) ==
    [Layer(op) EXCEPT !.kernel = pool_size, !.strides = strides]

AveragePooling2D(pool_size) == Pooling("AveragePooling2D", pool_size, pool_size)

MaxPooling2D(pool_size, strides) == Pooling("MaxPooling2D", pool_size, strides)

\* A dropout layer of the class the name dropoutType is bound to.
DropoutOf(class, rate) == [Layer(class) EXCEPT !.rate = rate]

Dropout(rate) == DropoutOf("Dropout", rate)

Permute(dims) == [Layer("Permute") EXCEPT !.dims = dims]

Flatten(name) == [Layer("Flatten") EXCEPT !.name = name]

DenseWith(units, name, constraint, activation) ==
    [Layer("Dense") EXCEPT !.filters = units, !.name = name, !.use_bias = TRUE,
                           !.constraint = constraint, !.activation = activation]

Dense(units, name, constraint) == DenseWith(units, name, constraint, "linear")

Concatenate == [Layer("Concatenate") EXCEPT !.axis = -1]

\* The shape a layer puts out for the shapes it is applied to.
OutShape(layer, ins, df) ==
    CASE layer.op = "Input" -> layer.shape
      [] layer.op \in {"Conv2D", "Conv3D", "SeparableConv2D"} ->
            Windowed(ins[1], layer.kernel, layer.strides, layer.padding,
                     layer.filters, df)
      [] layer.op = "DepthwiseConv2D" ->
            Windowed(ins[1], layer.kernel, layer.strides, layer.padding,
                     Features(ins[1], df) * layer.depth_multiplier, df)
      [] layer.op \in {"AveragePooling2D", "MaxPooling2D"} ->
            Windowed(ins[1], layer.kernel, layer.strides, layer.padding,
                     Features(ins[1], df), df)
      [] layer.op = "Permute" -> [i \in 1..Len(layer.dims) |-> ins[1][layer.dims[i]]]
      [] layer.op = "Flatten" -> <<Product(ins[1])>>
      [] layer.op = "Dense" -> SubSeq(ins[1], 1, Len(ins[1]) - 1) \o <<layer.filters>>
      [] layer.op = "Concatenate" ->
            SubSeq(ins[1], 1, Len(ins[1]) - 1)
                \o <<Sum([i \in 1..Len(ins) |-> ins[i][Len(ins[i])]])>>
      [] OTHER -> ins[1]

\* layer(x) for the nodes srcs of the graph L: one more node.
Apply(L, layer, srcs, df) ==
    Append(L, [layer EXCEPT !.in = srcs,
                            !.shape = OutShape(layer,
                                               [i \in 1..Len(srcs) |-> L[srcs[i]].shape],
                                               df)])

\* x = layer(x) for each layer in turn; an Input starts a new chain.
RECURSIVE Chain(_, _, _)
Chain(L, ls, df) ==
    IF ls = <<>> THEN L
    ELSE Chain(Apply(L, Head(ls),
                     IF Head(ls).op = "Input" THEN <<>> ELSE <<Len(L)>>, df),
               Tail(ls), df)

(***************************************************************************)
(* What a call leaves behind.                                              *)
(***************************************************************************)
NoResult == [kind |-> "none", inputs |-> <<>>, outputs |-> <<>>]

ValueError == [kind |-> "ValueError", inputs |-> <<>>, outputs |-> <<>>]

Model(inputs, outputs) == [kind |-> "Model", inputs |-> inputs, outputs |-> outputs]

Bind(c, new) == [frame EXCEPT ![c] = new @@ @]

At(c, b, p) == pc[c] = p /\ call[c].builder = b

Goto(c, p) == pc' = [pc EXCEPT ![c] = p]

\* The layout flag of the call; EEGNet_old and EEGNet_fusion have none and
\* build the default layout.
Cpu(c) == "cpu" \in DOMAIN call[c] /\ call[c].cpu

Grow(c, ls) ==
    layers' = [layers EXCEPT ![c] = Chain(@, ls, DataFormat(Cpu(c)))]

Return(c, r) == result' = [result EXCEPT ![c] = r]

\* ResolveDropout with the test placed after the input node is created.
ResolveDropout_afterInput(c, next) ==
    IF frame[c].dropoutType \in {"SpatialDropout2D", "Dropout"}
    THEN /\ frame' = Bind(c, [dropoutType |-> frame[c].dropoutType])
         /\ Goto(c, next)
         /\ UNCHANGED <<layers, result>>
    ELSE /\ Goto(c, "raised")
         /\ Return(c, ValueError)
         /\ Grow(c, <<Input(<<1, frame[c].Chans, frame[c].Samples>>)>>)
         /\ UNCHANGED frame

\* if dropoutType == 'SpatialDropout2D': ... elif ... else: raise ValueError
ResolveDropout(c, next) ==
    IF frame[c].dropoutType \in {"SpatialDropout2D", "Dropout"}
    THEN /\ frame' = Bind(c, [dropoutType |-> frame[c].dropoutType])
         /\ Goto(c, next)
         /\ UNCHANGED <<layers, result>>
    ELSE /\ Goto(c, "raised")
         /\ Return(c, ValueError)
         /\ UNCHANGED <<frame, layers>>

(***************************************************************************)
(* EEGNet                                                                  *)
(***************************************************************************)
EEGNet_table(f) ==
    IF f.cpu
    THEN [input_shape |-> <<f.Samples, f.Chans, 1>>,
          conv_filters |-> <<f.kernLength, 1>>,
          depth_filters |-> <<1, f.Chans>>,
          pool_size |-> <<4, 1>>,
          pool_size2 |-> <<8, 1>>,
          separable_filters |-> <<16, 1>>]
    ELSE [input_shape |-> <<1, f.Chans, f.Samples>>,
          conv_filters |-> <<1, f.kernLength>>,
          depth_filters |-> <<f.Chans, 1>>,
          pool_size |-> <<1, 6>>,
          pool_size2 |-> <<1, 12>>,
          separable_filters |-> <<1, 20>>]

EEGNet_dropoutType(c) ==
    /\ At(c, "EEGNet", "start")
    /\ ResolveDropout(c, "layout")
    /\ UNCHANGED <<call, kernels_default>>

EEGNet_layout(c) ==
    /\ At(c, "EEGNet", "layout")
    /\ frame' = Bind(c, EEGNet_table(frame[c]))
    /\ Goto(c, "block1")
    /\ UNCHANGED <<call, layers, result, kernels_default>>

EEGNet_block1(c) ==
    /\ At(c, "EEGNet", "block1")
    /\ LET f == frame[c]
       IN  Grow(c, <<Input(f.input_shape),
                     Conv2D(f.F1, f.conv_filters, "same", FALSE, 0),
                     BatchNormalization(1),
                     DepthwiseConv2D(f.depth_filters, FALSE, f.D, 100),
                     BatchNormalization(1),
                     Activation("elu", ""),
                     AveragePooling2D(f.pool_size),
                     DropoutOf(f.dropoutType, f.dropoutRate)>>)
    /\ frame' = Bind(c, [input1 |-> Len(layers[c]) + 1])
    /\ Goto(c, "block2")
    /\ UNCHANGED <<call, result, kernels_default>>

EEGNet_block2(c) ==
    /\ At(c, "EEGNet", "block2")
    /\ LET f == frame[c]
       IN  Grow(c, <<SeparableConv2D(f.F2, f.separable_filters, FALSE, "same"),
                     BatchNormalization(1),
                     Activation("elu", ""),
                     AveragePooling2D(f.pool_size2),
                     DropoutOf(f.dropoutType, f.dropoutRate)>>)
    /\ Goto(c, "head")
    /\ UNCHANGED <<call, frame, result, kernels_default>>

\* EEGNet_head with the dense layer sized by F2 instead of nb_classes.
EEGNet_head_unitsF2(c) ==
    /\ At(c, "EEGNet", "head")
    /\ LET f == frame[c]
       IN  Grow(c, <<Flatten("flatten"),
                     Dense(f.F2, "dense", f.norm_rate),
                     Activation("softmax", "softmax")>>)
    /\ Return(c, Model(<<frame[c].input1>>, <<Len(layers'[c])>>))
    /\ Goto(c, "done")
    /\ UNCHANGED <<call, frame, kernels_default>>

EEGNet_head(c) ==
    /\ At(c, "EEGNet", "head")
    /\ LET f == frame[c]
       IN  Grow(c, <<Flatten("flatten"),
                     Dense(f.nb_classes, "dense", f.norm_rate),
                     Activation("softmax", "softmax")>>)
    /\ Return(c, Model(<<frame[c].input1>>, <<Len(layers'[c])>>))
    /\ Goto(c, "done")
    /\ UNCHANGED <<call, frame, kernels_default>>

(***************************************************************************)
(* EEGNet_SSVEP                                                            *)
(***************************************************************************)
EEGNet_SSVEP_table(f) ==
    IF f.cpu
    THEN [input_shape |-> <<f.Samples, f.Chans, 1>>,
          conv_filters |-> <<f.kernLength, 1>>,
          depth_filters |-> <<1, f.Chans>>,
          pool_size |-> <<4, 1>>,
          pool_size2 |-> <<8, 1>>,
          separable_filters |-> <<16, 1>>]
    ELSE [input_shape |-> <<1, f.Chans, f.Samples>>,
          conv_filters |-> <<1, f.kernLength>>,
          depth_filters |-> <<f.Chans, 1>>,
          pool_size |-> <<1, 4>>,
          pool_size2 |-> <<1, 8>>,
          separable_filters |-> <<1, 16>>]

EEGNet_SSVEP_dropoutType(c) ==
    /\ At(c, "EEGNet_SSVEP", "start")
    /\ ResolveDropout(c, "layout")
    /\ UNCHANGED <<call, kernels_default>>

\* Each branch of the layout test creates the input node itself.
EEGNet_SSVEP_layout(c) ==
    /\ At(c, "EEGNet_SSVEP", "layout")
    /\ LET t == EEGNet_SSVEP_table(frame[c])
       IN  /\ frame' = Bind(c, [input1 |-> Len(layers[c]) + 1] @@ t)
           /\ Grow(c, <<Input(t.input_shape)>>)
    /\ Goto(c, "block1")
    /\ UNCHANGED <<call, result, kernels_default>>

EEGNet_SSVEP_block1(c) ==
    /\ At(c, "EEGNet_SSVEP", "block1")
    /\ LET f == frame[c]
       IN  Grow(c, <<Conv2D(f.F1, f.conv_filters, "same", FALSE, 0),
                     BatchNormalization(1),
                     DepthwiseConv2D(f.depth_filters, FALSE, f.D, 100),
                     BatchNormalization(1),
                     Activation("elu", ""),
                     AveragePooling2D(f.pool_size),
                     DropoutOf(f.dropoutType, f.dropoutRate)>>)
    /\ Goto(c, "block2")
    /\ UNCHANGED <<call, frame, result, kernels_default>>

EEGNet_SSVEP_block2(c) ==
    /\ At(c, "EEGNet_SSVEP", "block2")
    /\ LET f == frame[c]
       IN  Grow(c, <<SeparableConv2D(f.F2, f.separable_filters, FALSE, "same"),
                     BatchNormalization(1),
                     Activation("elu", ""),
                     AveragePooling2D(f.pool_size2),
                     DropoutOf(f.dropoutType, f.dropoutRate)>>)
    /\ Goto(c, "head")
    /\ UNCHANGED <<call, frame, result, kernels_default>>

EEGNet_SSVEP_head(c) ==
    /\ At(c, "EEGNet_SSVEP", "head")
    /\ Grow(c, <<Flatten("flatten"),
                 Dense(frame[c].nb_classes, "dense", 0),
                 Activation("softmax", "softmax")>>)
    /\ Return(c, Model(<<frame[c].input1>>, <<Len(layers'[c])>>))
    /\ Goto(c, "done")
    /\ UNCHANGED <<call, frame, kernels_default>>

(***************************************************************************)
(* EEGNet_old.  The parameter kernels is bound to the list the caller      *)
(* passed or, when the caller passed none (<<>> here), to the list object  *)
(* created with the function; kernels[0] and kernels[1] are read when the  *)
(* second and the third convolution are created.                           *)
(***************************************************************************)
EEGNet_old_kernels(c) ==
    IF frame[c].kernels = <<>> THEN kernels_default ELSE frame[c].kernels

EEGNet_old_layer1(c) ==
    /\ At(c, "EEGNet_old", "start")
    /\ LET f == frame[c]
       IN  Grow(c, <<Input(<<1, f.Chans, f.Samples>>),
                     Conv2DReg(16, <<f.Chans, 1>>, <<1, 1>>, "valid", f.regRate, f.regRate),
                     BatchNormalization(1),
                     Activation("elu", ""),
                     Dropout(f.dropoutRate)>>)
    /\ frame' = Bind(c, [input_main |-> Len(layers[c]) + 1])
    /\ Goto(c, "permute")
    /\ UNCHANGED <<call, result, kernels_default>>

EEGNet_old_permute(c) ==
    /\ At(c, "EEGNet_old", "permute")
    /\ frame' = Bind(c, [permute_dims |-> <<2, 1, 3>>])
    /\ Grow(c, <<Permute(<<2, 1, 3>>)>>)
    /\ Goto(c, "layer2")
    /\ UNCHANGED <<call, result, kernels_default>>

EEGNet_old_layer2(c) ==
    /\ At(c, "EEGNet_old", "layer2")
    /\ LET f == frame[c]
       IN  Grow(c, <<Conv2DReg(4, EEGNet_old_kernels(c)[1], f.strides, "same", 0, f.regRate),
                     BatchNormalization(1),
                     Activation("elu", ""),
                     Dropout(f.dropoutRate)>>)
    /\ Goto(c, "layer3")
    /\ UNCHANGED <<call, frame, result, kernels_default>>

\* EEGNet_old_layer3 that also reverses the list kernels is bound to, in place.
EEGNet_old_layer3_reversesKernels(c) ==
    /\ At(c, "EEGNet_old", "layer3")
    /\ LET f == frame[c]
       IN  Grow(c, <<Conv2DReg(4, EEGNet_old_kernels(c)[2], f.strides, "same", 0, f.regRate),
                     BatchNormalization(1),
                     Activation("elu", ""),
                     Dropout(f.dropoutRate)>>)
    /\ IF frame[c].kernels = <<>>
       THEN kernels_default' = <<kernels_default[2], kernels_default[1]>> /\ UNCHANGED frame
       ELSE frame' = Bind(c, [kernels |-> <<frame[c].kernels[2], frame[c].kernels[1]>>])
            /\ UNCHANGED kernels_default
    /\ Goto(c, "head")
    /\ UNCHANGED <<call, result>>

EEGNet_old_layer3(c) ==
    /\ At(c, "EEGNet_old", "layer3")
    /\ LET f == frame[c]
       IN  Grow(c, <<Conv2DReg(4, EEGNet_old_kernels(c)[2], f.strides, "same", 0, f.regRate),
                     BatchNormalization(1),
                     Activation("elu", ""),
                     Dropout(f.dropoutRate)>>)
    /\ Goto(c, "head")
    /\ UNCHANGED <<call, frame, result, kernels_default>>

EEGNet_old_head(c) ==
    /\ At(c, "EEGNet_old", "head")
    /\ Grow(c, <<Flatten("flatten"),
                 Dense(frame[c].nb_classes, "dense", 0),
                 Activation("softmax", "softmax")>>)
    /\ Return(c, Model(<<frame[c].input_main>>, <<Len(layers'[c])>>))
    /\ Goto(c, "done")
    /\ UNCHANGED <<call, frame, kernels_default>>

(***************************************************************************)
(* DeepConvNet                                                             *)
(***************************************************************************)
\* DeepConvNet_table with the cpu branch's pool window left in the other order.
DeepConvNet_table_poolNotSwapped(f) ==
    IF f.cpu
    THEN [input_shape |-> <<f.Samples, f.Chans, 1>>,
          conv_filters |-> <<5, 1>>,
          conv_filters2 |-> <<1, f.Chans>>,
          pool |-> <<1, 2>>,
          strides |-> <<2, 1>>]
    ELSE [input_shape |-> <<1, f.Chans, f.Samples>>,
          conv_filters |-> <<1, 5>>,
          conv_filters2 |-> <<f.Chans, 1>>,
          pool |-> <<1, 2>>,
          strides |-> <<1, 2>>]

DeepConvNet_table(f) ==
    IF f.cpu
    THEN [input_shape |-> <<f.Samples, f.Chans, 1>>,
          conv_filters |-> <<5, 1>>,
          conv_filters2 |-> <<1, f.Chans>>,
          pool |-> <<2, 1>>,
          strides |-> <<2, 1>>]
    ELSE [input_shape |-> <<1, f.Chans, f.Samples>>,
          conv_filters |-> <<1, 5>>,
          conv_filters2 |-> <<f.Chans, 1>>,
          pool |-> <<1, 2>>,
          strides |-> <<1, 2>>]

\* DeepConvNet_stageTail with BatchNormalization left at the library's
\* epsilon and momentum.
DeepConvNet_stageTail_defaultNorm(f) ==
    <<BatchNormalization(1),
      Activation("elu", ""),
      MaxPooling2D(f.pool, f.strides),
      Dropout(f.dropoutRate)>>

\* The tail every stage ends with.
DeepConvNet_stageTail(f) ==
    <<BatchNormalizationWith(1, 1, 10),
      Activation("elu", ""),
      MaxPooling2D(f.pool, f.strides),
      Dropout(f.dropoutRate)>>

DeepConvNet_layout(c) ==
    /\ At(c, "DeepConvNet", "start")
    /\ LET t == DeepConvNet_table(frame[c])
       IN  /\ frame' = Bind(c, [input_main |-> Len(layers[c]) + 1] @@ t)
           /\ Grow(c, <<Input(t.input_shape)>>)
    /\ Goto(c, "block1")
    /\ UNCHANGED <<call, result, kernels_default>>

DeepConvNet_block1(c) ==
    /\ At(c, "DeepConvNet", "block1")
    /\ LET f == frame[c]
       IN  Grow(c, <<Conv2D(25, f.conv_filters, "valid", TRUE, 200),
                     Conv2D(25, f.conv_filters2, "valid", TRUE, 200)>>
                   \o DeepConvNet_stageTail(f))
    /\ Goto(c, "block2")
    /\ UNCHANGED <<call, frame, result, kernels_default>>

DeepConvNet_block2(c) ==
    /\ At(c, "DeepConvNet", "block2")
    /\ LET f == frame[c]
       IN  Grow(c, <<Conv2D(50, f.conv_filters, "valid", TRUE, 200)>>
                   \o DeepConvNet_stageTail(f))
    /\ Goto(c, "block3")
    /\ UNCHANGED <<call, frame, result, kernels_default>>

DeepConvNet_block3(c) ==
    /\ At(c, "DeepConvNet", "block3")
    /\ LET f == frame[c]
       IN  Grow(c, <<Conv2D(100, f.conv_filters, "valid", TRUE, 200)>>
                   \o DeepConvNet_stageTail(f))
    /\ Goto(c, "block4")
    /\ UNCHANGED <<call, frame, result, kernels_default>>

DeepConvNet_block4(c) ==
    /\ At(c, "DeepConvNet", "block4")
    /\ LET f == frame[c]
       IN  Grow(c, <<Conv2D(200, f.conv_filters, "valid", TRUE, 200)>>
                   \o DeepConvNet_stageTail(f))
    /\ Goto(c, "head")
    /\ UNCHANGED <<call, frame, result, kernels_default>>

DeepConvNet_head(c) ==
    /\ At(c, "DeepConvNet", "head")
    /\ Grow(c, <<Flatten(""),
                 Dense(frame[c].nb_classes, "", 50),
                 Activation("softmax", "")>>)
    /\ Return(c, Model(<<frame[c].input_main>>, <<Len(layers'[c])>>))
    /\ Goto(c, "done")
    /\ UNCHANGED <<call, frame, kernels_default>>

(***************************************************************************)
(* ShallowConvNet, with its two activation functions square and log.       *)
(***************************************************************************)
ShallowConvNet_table(f) ==
    IF f.cpu
    THEN [input_shape |-> <<f.Samples, f.Chans, 1>>,
          conv_filters |-> <<13, 1>>,
          conv_filters2 |-> <<1, f.Chans>>,
          pool_size |-> <<35, 1>>,
          strides |-> <<7, 1>>]
    ELSE [input_shape |-> <<1, f.Chans, f.Samples>>,
          conv_filters |-> <<1, 13>>,
          conv_filters2 |-> <<f.Chans, 1>>,
          pool_size |-> <<1, 35>>,
          strides |-> <<1, 7>>]

ShallowConvNet_layout(c) ==
    /\ At(c, "ShallowConvNet", "start")
    /\ frame' = Bind(c, ShallowConvNet_table(frame[c]))
    /\ Goto(c, "block1")
    /\ UNCHANGED <<call, layers, result, kernels_default>>

ShallowConvNet_block1(c) ==
    /\ At(c, "ShallowConvNet", "block1")
    /\ LET f == frame[c]
       IN  Grow(c, <<Input(f.input_shape),
                     Conv2D(40, f.conv_filters, "valid", TRUE, 200),
                     Conv2D(40, f.conv_filters2, "valid", FALSE, 200),
                     BatchNormalizationWith(1, 1, 10),
                     Activation("square", ""),
                     Pooling("AveragePooling2D", f.pool_size, f.strides),
                     Activation("log", ""),
                     Dropout(f.dropoutRate)>>)
    /\ frame' = Bind(c, [input_main |-> Len(layers[c]) + 1])
    /\ Goto(c, "head")
    /\ UNCHANGED <<call, result, kernels_default>>

\* The head with the Dense layer's kernel_constraint left out.
ShallowConvNet_head_unconstrained(c) ==
    /\ At(c, "ShallowConvNet", "head")
    /\ Grow(c, <<Flatten(""),
                 Dense(frame[c].nb_classes, "", 0),
                 Activation("softmax", "")>>)
    /\ Return(c, Model(<<frame[c].input_main>>, <<Len(layers'[c])>>))
    /\ Goto(c, "done")
    /\ UNCHANGED <<call, frame, kernels_default>>

ShallowConvNet_head(c) ==
    /\ At(c, "ShallowConvNet", "head")
    /\ Grow(c, <<Flatten(""),
                 Dense(frame[c].nb_classes, "", 50),
                 Activation("softmax", "")>>)
    /\ Return(c, Model(<<frame[c].input_main>>, <<Len(layers'[c])>>))
    /\ Goto(c, "done")
    /\ UNCHANGED <<call, frame, kernels_default>>

(***************************************************************************)
(* ConvNet3D and ConvNet3D_2 (the same three blocks, different heads)      *)
(***************************************************************************)
\* ConvNet3D_table with the third kernel as wide along Chunks as the second.
ConvNet3D_table_thirdKernelSpansTwoChunks(f) ==
    IF f.cpu
    THEN [input_shape |-> <<f.Samples, f.Chunks, f.Chans, 1>>,
          conv_filters |-> <<5, 3, 3>>,
          conv_strides |-> <<4, 2, 2>>,
          conv_filters2 |-> <<3, 2, 2>>,
          conv_strides2 |-> <<2, 2, 2>>,
          conv_filters3 |-> <<3, 2, 2>>,
          conv_strides3 |-> <<2, 2, 2>>]
    ELSE [input_shape |-> <<1, f.Chans, f.Chunks, f.Samples>>,
          conv_filters |-> <<3, 3, 5>>,
          conv_strides |-> <<2, 2, 4>>,
          conv_filters2 |-> <<2, 2, 3>>,
          conv_strides2 |-> <<2, 2, 2>>,
          conv_filters3 |-> <<2, 2, 3>>,
          conv_strides3 |-> <<2, 2, 2>>]

ConvNet3D_table(f) ==
    IF f.cpu
    THEN [input_shape |-> <<f.Samples, f.Chunks, f.Chans, 1>>,
          conv_filters |-> <<5, 3, 3>>,
          conv_strides |-> <<4, 2, 2>>,
          conv_filters2 |-> <<3, 2, 2>>,
          conv_strides2 |-> <<2, 2, 2>>,
          conv_filters3 |-> <<3, 1, 2>>,
          conv_strides3 |-> <<2, 2, 2>>]
    ELSE [input_shape |-> <<1, f.Chans, f.Chunks, f.Samples>>,
          conv_filters |-> <<3, 3, 5>>,
          conv_strides |-> <<2, 2, 4>>,
          conv_filters2 |-> <<2, 2, 3>>,
          conv_strides2 |-> <<2, 2, 2>>,
          conv_filters3 |-> <<2, 1, 3>>,
          conv_strides3 |-> <<2, 2, 2>>]

ConvNet3D_2_table(f) ==
    IF f.cpu
    THEN [input_shape |-> <<f.Samples, f.Chunks, f.Chans, 1>>,
          conv_filters |-> <<5, 3, 3>>,
          conv_strides |-> <<4, 2, 2>>,
          conv_filters2 |-> <<3, 2, 2>>,
          conv_strides2 |-> <<2, 2, 2>>,
          conv_filters3 |-> <<3, 1, 2>>,
          conv_strides3 |-> <<2, 2, 2>>]
    ELSE [input_shape |-> <<1, f.Chans, f.Chunks, f.Samples>>,
          conv_filters |-> <<3, 3, 5>>,
          conv_strides |-> <<2, 2, 4>>,
          conv_filters2 |-> <<2, 2, 3>>,
          conv_strides2 |-> <<2, 2, 2>>,
          conv_filters3 |-> <<2, 1, 3>>,
          conv_strides3 |-> <<2, 2, 2>>]

\* Conv3D, BatchNormalization(), Activation('elu'), Dropout(dropoutRate)
Conv3D_block(filters, kernel, strides, rate) ==
    <<Conv3D(filters, kernel, strides),
      BatchNormalization(-1),
      Activation("elu", ""),
      Dropout(rate)>>

ConvNet3D_layout(c) ==
    /\ At(c, "ConvNet3D", "start")
    /\ LET t == ConvNet3D_table(frame[c])
       IN  /\ frame' = Bind(c, [input_main |-> Len(layers[c]) + 1] @@ t)
           /\ Grow(c, <<Input(t.input_shape)>>)
    /\ Goto(c, "block1")
    /\ UNCHANGED <<call, result, kernels_default>>

ConvNet3D_block1(c) ==
    /\ At(c, "ConvNet3D", "block1")
    /\ LET f == frame[c]
       IN  Grow(c, Conv3D_block(16, f.conv_filters, f.conv_strides, f.dropoutRate))
    /\ Goto(c, "block2")
    /\ UNCHANGED <<call, frame, result, kernels_default>>

ConvNet3D_block2(c) ==
    /\ At(c, "ConvNet3D", "block2")
    /\ LET f == frame[c]
       IN  Grow(c, Conv3D_block(32, f.conv_filters2, f.conv_strides2, f.dropoutRate))
    /\ Goto(c, "block3")
    /\ UNCHANGED <<call, frame, result, kernels_default>>

ConvNet3D_block3(c) ==
    /\ At(c, "ConvNet3D", "block3")
    /\ LET f == frame[c]
       IN  Grow(c, Conv3D_block(64, f.conv_filters3, f.conv_strides3, f.dropoutRate))
    /\ Goto(c, "head")
    /\ UNCHANGED <<call, frame, result, kernels_default>>

ConvNet3D_head(c) ==
    /\ At(c, "ConvNet3D", "head")
    /\ Grow(c, <<Flatten(""),
                 Dense(frame[c].nb_classes, "", 0),
                 Activation("softmax", "")>>)
    /\ Return(c, Model(<<frame[c].input_main>>, <<Len(layers'[c])>>))
    /\ Goto(c, "done")
    /\ UNCHANGED <<call, frame, kernels_default>>

ConvNet3D_2_layout(c) ==
    /\ At(c, "ConvNet3D_2", "start")
    /\ LET t == ConvNet3D_2_table(frame[c])
       IN  /\ frame' = Bind(c, [input_layer |-> Len(layers[c]) + 1] @@ t)
           /\ Grow(c, <<Input(t.input_shape)>>)
    /\ Goto(c, "x")
    /\ UNCHANGED <<call, result, kernels_default>>

ConvNet3D_2_x(c) ==
    /\ At(c, "ConvNet3D_2", "x")
    /\ LET f == frame[c]
       IN  Grow(c, Conv3D_block(16, f.conv_filters, f.conv_strides, f.dropoutRate))
    /\ Goto(c, "y")
    /\ UNCHANGED <<call, frame, result, kernels_default>>

ConvNet3D_2_y(c) ==
    /\ At(c, "ConvNet3D_2", "y")
    /\ LET f == frame[c]
       IN  Grow(c, Conv3D_block(32, f.conv_filters2, f.conv_strides2, f.dropoutRate))
    /\ Goto(c, "z")
    /\ UNCHANGED <<call, frame, result, kernels_default>>

ConvNet3D_2_z(c) ==
    /\ At(c, "ConvNet3D_2", "z")
    /\ LET f == frame[c]
       IN  Grow(c, Conv3D_block(64, f.conv_filters3, f.conv_strides3, f.dropoutRate))
    /\ Goto(c, "head")
    /\ UNCHANGED <<call, frame, result, kernels_default>>

ConvNet3D_2_head(c) ==
    /\ At(c, "ConvNet3D_2", "head")
    /\ Grow(c, <<Flatten(""),
                 Dense(64, "", 0), BatchNormalization(-1), Activation("relu", ""),
                 Dense(128, "", 0), BatchNormalization(-1), Activation("relu", ""),
                 Dense(frame[c].nb_classes, "", 0),
                 Activation("softmax", "")>>)
    /\ Return(c, Model(<<frame[c].input_layer>>, <<Len(layers'[c])>>))
    /\ Goto(c, "done")
    /\ UNCHANGED <<call, frame, kernels_default>>

(***************************************************************************)
(* DeeperConvNet                                                           *)
(***************************************************************************)
DeeperConvNet_table(f) ==
    IF f.cpu
    THEN [input_shape |-> <<f.Samples, f.Chans, 1>>]
    ELSE [input_shape |-> <<1, f.Chans, f.Samples>>]

\* n times Conv2D(filters, (3, 3), padding='same') and Activation('relu'),
\* then BatchNormalization(), MaxPooling2D((2, 2), (2, 2)), Dropout(0.2)
RECURSIVE DeeperConvNet_convs(_, _)
DeeperConvNet_convs(filters, n) ==
    IF n = 0 THEN <<>>
    ELSE <<Conv2D(filters, <<3, 3>>, "same", TRUE, 0), Activation("relu", "")>>
         \o DeeperConvNet_convs(filters, n - 1)

DeeperConvNet_stage(filters, n) ==
    DeeperConvNet_convs(filters, n)
    \o <<BatchNormalization(-1), MaxPooling2D(<<2, 2>>, <<2, 2>>), Dropout(20)>>

DeeperConvNet_layout(c) ==
    /\ At(c, "DeeperConvNet", "start")
    /\ LET t == DeeperConvNet_table(frame[c])
       IN  /\ frame' = Bind(c, [x |-> Len(layers[c]) + 1] @@ t)
           /\ Grow(c, <<Input(t.input_shape)>>)
    /\ Goto(c, "stage1")
    /\ UNCHANGED <<call, result, kernels_default>>

DeeperConvNet_stage1(c) ==
    /\ At(c, "DeeperConvNet", "stage1")
    /\ Grow(c, DeeperConvNet_stage(64, 2))
    /\ Goto(c, "stage2")
    /\ UNCHANGED <<call, frame, result, kernels_default>>

DeeperConvNet_stage2(c) ==
    /\ At(c, "DeeperConvNet", "stage2")
    /\ Grow(c, DeeperConvNet_stage(128, 2))
    /\ Goto(c, "stage3")
    /\ UNCHANGED <<call, frame, result, kernels_default>>

DeeperConvNet_stage3(c) ==
    /\ At(c, "DeeperConvNet", "stage3")
    /\ Grow(c, DeeperConvNet_stage(256, 3))
    /\ Goto(c, "stage4")
    /\ UNCHANGED <<call, frame, result, kernels_default>>

DeeperConvNet_stage4(c) ==
    /\ At(c, "DeeperConvNet", "stage4")
    /\ Grow(c, DeeperConvNet_stage(512, 3))
    /\ Goto(c, "stage5")
    /\ UNCHANGED <<call, frame, result, kernels_default>>

DeeperConvNet_stage5(c) ==
    /\ At(c, "DeeperConvNet", "stage5")
    /\ Grow(c, DeeperConvNet_stage(512, 3))
    /\ Goto(c, "head")
    /\ UNCHANGED <<call, frame, result, kernels_default>>

DeeperConvNet_head(c) ==
    /\ At(c, "DeeperConvNet", "head")
    /\ Grow(c, <<Flatten(""),
                 DenseWith(4096, "", 0, "relu"),
                 DenseWith(4096, "", 0, "relu"),
                 Dropout(50),
                 DenseWith(frame[c].nb_classes, "", 0, "softmax")>>)
    /\ Return(c, Model(<<frame[c].x>>, <<Len(layers'[c])>>))
    /\ Goto(c, "done")
    /\ UNCHANGED <<call, frame, kernels_default>>

(***************************************************************************)
(* ConvNet2D                                                               *)
(***************************************************************************)
ConvNet2D_table(f) ==
    IF f.cpu
    THEN [input_shape |-> <<f.Samples, f.Chans, 1>>,
          conv_filters |-> <<4, 2>>,
          conv_filters2 |-> <<4, 2>>,
          pool_size |-> <<4, 2>>,
          pool_size2 |-> <<4, 4>>]
    ELSE [input_shape |-> <<1, f.Chans, f.Samples>>,
          conv_filters |-> <<2, 4>>,
          conv_filters2 |-> <<2, 4>>,
          pool_size |-> <<2, 4>>,
          pool_size2 |-> <<4, 4>>]

ConvNet2D_layout(c) ==
    /\ At(c, "ConvNet2D", "start")
    /\ frame' = Bind(c, ConvNet2D_table(frame[c]))
    /\ Goto(c, "x")
    /\ UNCHANGED <<call, layers, result, kernels_default>>

ConvNet2D_x(c) ==
    /\ At(c, "ConvNet2D", "x")
    /\ LET f == frame[c]
       IN  Grow(c, <<Input(f.input_shape),
                     Conv2D(64, f.conv_filters, "valid", TRUE, 0),
                     BatchNormalization(-1),
                     Activation("relu", ""),
                     MaxPooling2D(f.pool_size, f.pool_size)>>)
    /\ frame' = Bind(c, [input_layer |-> Len(layers[c]) + 1])
    /\ Goto(c, "y")
    /\ UNCHANGED <<call, result, kernels_default>>

ConvNet2D_y(c) ==
    /\ At(c, "ConvNet2D", "y")
    /\ LET f == frame[c]
       IN  Grow(c, <<Conv2D(128, f.conv_filters2, "valid", TRUE, 0),
                     BatchNormalization(-1),
                     Activation("relu", ""),
                     MaxPooling2D(f.pool_size2, f.pool_size2)>>)
    /\ Goto(c, "head")
    /\ UNCHANGED <<call, frame, result, kernels_default>>

ConvNet2D_head(c) ==
    /\ At(c, "ConvNet2D", "head")
    /\ Grow(c, <<Flatten(""),
                 Dense(1024, "", 0), BatchNormalization(-1), Activation("relu", ""),
                 Dropout(45),
                 Dense(frame[c].nb_classes, "", 0),
                 Activation("softmax", "")>>)
    /\ Return(c, Model(<<frame[c].input_layer>>, <<Len(layers'[c])>>))
    /\ Goto(c, "done")
    /\ UNCHANGED <<call, frame, kernels_default>>

(***************************************************************************)
(* EEGNet_fusion: three branches on three input nodes, one head.           *)
(***************************************************************************)
EEGNet_fusion_table(f) ==
    [input_shape |-> <<1, f.Chans, f.Samples>>,
     conv_filters |-> <<1, 64>>,
     conv_filters2 |-> <<1, 96>>,
     conv_filters3 |-> <<1, 128>>,
     depth_filters |-> <<f.Chans, 1>>,
     pool_size |-> <<1, 4>>,
     pool_size2 |-> <<1, 8>>,
     separable_filters |-> <<1, 8>>,
     separable_filters2 |-> <<1, 16>>,
     separable_filters3 |-> <<1, 32>>,
     F1 |-> 8, F1_2 |-> 16, F1_3 |-> 64,
     F2 |-> 16, F2_2 |-> 32, F2_3 |-> 128,
     D |-> 2, D2 |-> 2, D3 |-> 2]

\* EEGNet_fusion_branch with Block 2's dropout fixed to the Dropout class.
EEGNet_fusion_branch_plainDropout(f, F1, conv_filters, D, F2, separable_filters) ==
    <<Input(f.input_shape),
      Conv2D(F1, conv_filters, "same", FALSE, 0),
      BatchNormalization(1),
      DepthwiseConv2D(f.depth_filters, FALSE, D, 100),
      BatchNormalization(1),
      Activation("elu", ""),
      AveragePooling2D(f.pool_size),
      DropoutOf(f.dropoutType, f.dropoutRate),
      SeparableConv2D(F2, separable_filters, FALSE, "same"),
      BatchNormalization(1),
      Activation("elu", ""),
      AveragePooling2D(f.pool_size2),
      Dropout(f.dropoutRate),
      Flatten("")>>

\* One branch: Input, Block 1, Block 2, Flatten.
EEGNet_fusion_branch(f, F1, conv_filters, D, F2, separable_filters) ==
    <<Input(f.input_shape),
      Conv2D(F1, conv_filters, "same", FALSE, 0),
      BatchNormalization(1),
      DepthwiseConv2D(f.depth_filters, FALSE, D, 100),
      BatchNormalization(1),
      Activation("elu", ""),
      AveragePooling2D(f.pool_size),
      DropoutOf(f.dropoutType, f.dropoutRate),
      SeparableConv2D(F2, separable_filters, FALSE, "same"),
      BatchNormalization(1),
      Activation("elu", ""),
      AveragePooling2D(f.pool_size2),
      DropoutOf(f.dropoutType, f.dropoutRate),
      Flatten("")>>

EEGNet_fusion_dropoutType(c) ==
    /\ At(c, "EEGNet_fusion", "start")
    /\ ResolveDropout(c, "layout")
    /\ UNCHANGED <<call, kernels_default>>

EEGNet_fusion_layout(c) ==
    /\ At(c, "EEGNet_fusion", "layout")
    /\ frame' = Bind(c, EEGNet_fusion_table(frame[c]))
    /\ Goto(c, "branch1")
    /\ UNCHANGED <<call, layers, result, kernels_default>>

EEGNet_fusion_branch1(c) ==
    /\ At(c, "EEGNet_fusion", "branch1")
    /\ LET f == frame[c]
       IN  Grow(c, EEGNet_fusion_branch(f, f.F1, f.conv_filters, f.D,
                                        f.F2, f.separable_filters))
    /\ frame' = Bind(c, [input1 |-> Len(layers[c]) + 1, block2 |-> Len(layers'[c])])
    /\ Goto(c, "branch2")
    /\ UNCHANGED <<call, result, kernels_default>>

EEGNet_fusion_branch2(c) ==
    /\ At(c, "EEGNet_fusion", "branch2")
    /\ LET f == frame[c]
       IN  Grow(c, EEGNet_fusion_branch(f, f.F1_2, f.conv_filters2, f.D2,
                                        f.F2_2, f.separable_filters2))
    /\ frame' = Bind(c, [input2 |-> Len(layers[c]) + 1, block4 |-> Len(layers'[c])])
    /\ Goto(c, "branch3")
    /\ UNCHANGED <<call, result, kernels_default>>

EEGNet_fusion_branch3(c) ==
    /\ At(c, "EEGNet_fusion", "branch3")
    /\ LET f == frame[c]
       IN  Grow(c, EEGNet_fusion_branch(f, f.F1_3, f.conv_filters3, f.D3,
                                        f.F2_3, f.separable_filters3))
    /\ frame' = Bind(c, [input3 |-> Len(layers[c]) + 1, block6 |-> Len(layers'[c])])
    /\ Goto(c, "head")
    /\ UNCHANGED <<call, result, kernels_default>>

\* EEGNet_fusion_merged with the first two branches concatenated in the other order.
EEGNet_fusion_merged_swapped(L, f, df) ==
    LET one == Apply(L, Concatenate, <<f.block4, f.block2>>, df)
    IN  Apply(one, Concatenate, <<Len(one), f.block6>>, df)

\* merge_one, merge_two, then the head on the last node.
EEGNet_fusion_merged(L, f, df) ==
    LET one == Apply(L, Concatenate, <<f.block2, f.block4>>, df)
    IN  Apply(one, Concatenate, <<Len(one), f.block6>>, df)

EEGNet_fusion_head(c) ==
    /\ At(c, "EEGNet_fusion", "head")
    /\ LET f  == frame[c]
           df == DataFormat(Cpu(c))
       IN  /\ layers' = [layers EXCEPT ![c] =
                            Chain(EEGNet_fusion_merged(@, f, df),
                                  <<Flatten(""),
                                    Dense(f.nb_classes, "dense", f.norm_rate),
                                    Activation("softmax", "softmax")>>, df)]
           /\ Return(c, Model(<<f.input1, f.input2, f.input3>>, <<Len(layers'[c])>>))
    /\ Goto(c, "done")
    /\ UNCHANGED <<call, frame, kernels_default>>

(***************************************************************************)
(* The calls.  A call record has one field per parameter of its builder;   *)
(* a parameter left out of the sets below is at the default its def line   *)
(* gives it.                                                               *)
(***************************************************************************)
Builders ==
    {"EEGNet", "EEGNet_SSVEP", "EEGNet_old", "DeepConvNet", "ShallowConvNet",
     "ConvNet3D", "DeeperConvNet", "ConvNet2D", "ConvNet3D_2", "EEGNet_fusion"}

WithDropoutType == {"EEGNet", "EEGNet_SSVEP", "EEGNet_fusion"}

WithLayout == Builders \ {"EEGNet_old", "EEGNet_fusion"}

\* The parameters every builder has.
CommonArgs(b) ==
    {[builder |-> b, nb_classes |-> n, Chans |-> ch, Samples |-> sm, dropoutRate |-> r] :
        n \in ClassCounts, ch \in ChanCounts, sm \in SampleCounts, r \in Rates}

\* The parameters of b the others do not have.
OwnArgs(b) ==
    CASE b = "EEGNet" ->
            {[kernLength |-> kl, F1 |-> 8, D |-> 2, F2 |-> 16, norm_rate |-> 25,
              dropoutType |-> dt, cpu |-> cpu] :
                kl \in KernLengths, dt \in DropoutNames, cpu \in BOOLEAN}
      [] b = "EEGNet_SSVEP" ->
            {[kernLength |-> kl, F1 |-> 96, D |-> 1, F2 |-> 96,
              dropoutType |-> dt, cpu |-> cpu] :
                kl \in KernLengths, dt \in DropoutNames, cpu \in BOOLEAN}
      [] b = "EEGNet_old" ->
            {[regRate |-> 1, kernels |-> ks, strides |-> <<2, 4>>] :
                ks \in {<<>>, <<<<2, 16>>, <<4, 4>>>>}}
      [] b = "EEGNet_fusion" ->
            {[norm_rate |-> 25, dropoutType |-> dt] : dt \in DropoutNames}
      [] b \in {"ConvNet3D", "ConvNet3D_2"} ->
            {[Chunks |-> ck, cpu |-> cpu] : ck \in ChunkCounts, cpu \in BOOLEAN}
      [] OTHER -> {[cpu |-> cpu] : cpu \in BOOLEAN}

ArgsOf(b) == {own @@ common : own \in OwnArgs(b), common \in CommonArgs(b)}

AllArgs == UNION {ArgsOf(b) : b \in Builders}

\* The arguments of the two-call runs: the largest dimensions only.
PairArgs ==
    {r \in AllArgs : /\ r.nb_classes = MaxClasses
                     /\ r.Chans = MaxChans
                     /\ r.Samples = 50 * MaxSampleSteps
                     /\ r.dropoutRate = 25 * MaxRateSteps
                     /\ "kernLength" \in DOMAIN r => r.kernLength = 32 * MaxKernSteps}

\* [(2, 32), (8, 4)], created once, when EEGNet_old is defined
KernelsDefault == <<<<2, 32>>, <<8, 4>>>>

InitCommon ==
    /\ frame = call
    /\ layers = [c \in Calls |-> <<>>]
    /\ result = [c \in Calls |-> NoResult]
    /\ kernels_default = KernelsDefault

\* One call; b never starts.
Init ==
    /\ \E r \in AllArgs : call = [c \in Calls |-> r]
    /\ pc = [c \in Calls |-> IF c = "a" THEN "start" ELSE "idle"]
    /\ InitCommon

\* Two calls, their steps interleaved.
InitPair ==
    /\ call \in [Calls -> PairArgs]
    /\ pc = [c \in Calls |-> "start"]
    /\ InitCommon

Step(c) ==
    \/ EEGNet_dropoutType(c)
    \/ EEGNet_layout(c)
    \/ EEGNet_block1(c)
    \/ EEGNet_block2(c)
    \/ EEGNet_head(c)
    \/ EEGNet_SSVEP_dropoutType(c)
    \/ EEGNet_SSVEP_layout(c)
    \/ EEGNet_SSVEP_block1(c)
    \/ EEGNet_SSVEP_block2(c)
    \/ EEGNet_SSVEP_head(c)
    \/ EEGNet_old_layer1(c)
    \/ EEGNet_old_permute(c)
    \/ EEGNet_old_layer2(c)
    \/ EEGNet_old_layer3(c)
    \/ EEGNet_old_head(c)
    \/ DeepConvNet_layout(c)
    \/ DeepConvNet_block1(c)
    \/ DeepConvNet_block2(c)
    \/ DeepConvNet_block3(c)
    \/ DeepConvNet_block4(c)
    \/ DeepConvNet_head(c)
    \/ ShallowConvNet_layout(c)
    \/ ShallowConvNet_block1(c)
    \/ ShallowConvNet_head(c)
    \/ ConvNet3D_layout(c)
    \/ ConvNet3D_block1(c)
    \/ ConvNet3D_block2(c)
    \/ ConvNet3D_block3(c)
    \/ ConvNet3D_head(c)
    \/ DeeperConvNet_layout(c)
    \/ DeeperConvNet_stage1(c)
    \/ DeeperConvNet_stage2(c)
    \/ DeeperConvNet_stage3(c)
    \/ DeeperConvNet_stage4(c)
    \/ DeeperConvNet_stage5(c)
    \/ DeeperConvNet_head(c)
    \/ ConvNet2D_layout(c)
    \/ ConvNet2D_x(c)
    \/ ConvNet2D_y(c)
    \/ ConvNet2D_head(c)
    \/ ConvNet3D_2_layout(c)
    \/ ConvNet3D_2_x(c)
    \/ ConvNet3D_2_y(c)
    \/ ConvNet3D_2_z(c)
    \/ ConvNet3D_2_head(c)
    \/ EEGNet_fusion_dropoutType(c)
    \/ EEGNet_fusion_layout(c)
    \/ EEGNet_fusion_branch1(c)
    \/ EEGNet_fusion_branch2(c)
    \/ EEGNet_fusion_branch3(c)
    \/ EEGNet_fusion_head(c)

Next == \E c \in Calls : Step(c)

Spec == Init /\ [][Next]_vars

SpecPair == InitPair /\ [][Next]_vars

(***************************************************************************)
(* square and log, the two functions ShallowConvNet passes to Activation.  *)
(* A call of log is a process like a build call: `call` holds its argument *)
(* x (one element of the tensor; K.clip and K.log work element by          *)
(* element), `frame` the clipped value, `result` what K.log returns.       *)
(*                                                                         *)
(* A real number is a decimal of one significant digit,                    *)
(* sign * digit * 10^exp, with 0 as sign 0; 1e-7 and 10000 are such        *)
(* decimals.  What K.log returns is kept as its kind (finite, -inf for     *)
(* log 0, nan for the log of a negative number) and, when finite, the      *)
(* decade floor(log10 y) of its argument, which grows as ln y does.        *)
(***************************************************************************)
MaxExponent == 8

Decimal(sign, digit, exp) == [sign |-> sign, digit |-> digit, exp |-> exp]

Zero == Decimal(0, 0, 0)

Decimals ==
    {Zero} \cup {Decimal(sg, d, e) :
                    sg \in {-1, 1}, d \in 1..9, e \in (0 - MaxExponent)..MaxExponent}

\* a < b for two decimals of the same sign 1
LessMagnitude(a, b) == a.exp < b.exp \/ (a.exp = b.exp /\ a.digit < b.digit)

\* a < b
Less(a, b) ==
    CASE a.sign < b.sign -> TRUE
      [] a.sign > b.sign -> FALSE
      [] a.sign = 0 -> FALSE
      [] a.sign = 1 -> LessMagnitude(a, b)
      [] OTHER -> LessMagnitude(b, a)

\* min_value = 1e-7
min_value == Decimal(1, 1, -7)

\* max_value = 10000
max_value == Decimal(1, 1, 4)

\* K.clip(x, min_value, max_value): min(max(x, min_value), max_value)
K_clip(x, lo, hi) ==
    LET raised == IF Less(x, lo) THEN lo ELSE x
    IN  IF Less(hi, raised) THEN hi ELSE raised

\* K.log(y)
K_log(y) ==
    CASE y.sign = 1 -> [kind |-> "finite", decade |-> y.exp]
      [] y.sign = 0 -> [kind |-> "-inf", decade |-> 0]
      [] OTHER -> [kind |-> "nan", decade |-> 0]

\* log with the clip's lower bound at zero
log_clip_floorZero(c) ==
    /\ At(c, "log", "start")
    /\ frame' = Bind(c, [clipped |-> K_clip(frame[c].x, Zero, max_value)])
    /\ Goto(c, "clipped")
    /\ UNCHANGED <<call, layers, result, kernels_default>>

\* K.clip(x, min_value = 1e-7, max_value = 10000)
log_clip(c) ==
    /\ At(c, "log", "start")
    /\ frame' = Bind(c, [clipped |-> K_clip(frame[c].x, min_value, max_value)])
    /\ Goto(c, "clipped")
    /\ UNCHANGED <<call, layers, result, kernels_default>>

\* return K.log(...)
log_return(c) ==
    /\ At(c, "log", "clipped")
    /\ Return(c, K_log(frame[c].clipped))
    /\ Goto(c, "done")
    /\ UNCHANGED <<call, frame, layers, kernels_default>>

LogArgs == {[builder |-> "log", x |-> x] : x \in Decimals}

\* Call a builds a ShallowConvNet; call b is log applied to one element of
\* the tensor its Activation(log) node receives.
InitLog ==
    /\ \E r \in PairArgs, l \in LogArgs :
          /\ r.builder = "ShallowConvNet"
          /\ call = [c \in Calls |-> IF c = "a" THEN r ELSE l]
    /\ pc = [c \in Calls |-> "start"]
    /\ InitCommon

NextLog ==
    \E c \in Calls :
        \/ ShallowConvNet_layout(c)
        \/ ShallowConvNet_block1(c)
        \/ ShallowConvNet_head(c)
        \/ log_clip(c)
        \/ log_return(c)

SpecLog == InitLog /\ [][NextLog]_vars

(***************************************************************************)
(* Calls that leave Chans, Samples and Chunks at the defaults of the def   *)
(* lines.                                                                  *)
(***************************************************************************)
DefaultChans(b) == IF b = "EEGNet_SSVEP" THEN 8 ELSE 64

DefaultSamples(b) ==
    CASE b \in {"EEGNet", "EEGNet_old", "ShallowConvNet", "EEGNet_fusion"} -> 128
      [] b \in {"EEGNet_SSVEP", "DeepConvNet"} -> 256
      [] b \in {"ConvNet3D", "ConvNet3D_2"} -> 80
      [] OTHER -> 640

DefaultChunks(b) == 8

WithDefaultDims(r) ==
    LET d == [r EXCEPT !.Chans = DefaultChans(r.builder),
                       !.Samples = DefaultSamples(r.builder)]
    IN  IF "Chunks" \in DOMAIN r
        THEN [d EXCEPT !.Chunks = DefaultChunks(r.builder)]
        ELSE d

DefaultArgs == {WithDefaultDims(r) : r \in AllArgs}

\* One call with the default dimensions; b never starts.
InitDefaults ==
    /\ \E r \in DefaultArgs : call = [c \in Calls |-> r]
    /\ pc = [c \in Calls |-> IF c = "a" THEN "start" ELSE "idle"]
    /\ InitCommon

SpecDefaults == InitDefaults /\ [][Next]_vars

(***************************************************************************)
(* Properties                                                              *)
(***************************************************************************)
Started(c) == pc[c] \notin {"idle", "start"}

Done(c) == pc[c] = "done"

\* C1: in EEGNet, EEGNet_SSVEP and EEGNet_fusion a dropoutType other than
\* 'Dropout' and 'SpatialDropout2D' ends the call with ValueError, and the
\* call has created no graph node when it is raised; nothing else raises.
C1_BadDropoutTypeRaisesBeforeAnyNode ==
    \A c \in Calls :
        /\ ( /\ call[c].builder \in WithDropoutType
             /\ call[c].dropoutType \notin {"Dropout", "SpatialDropout2D"}
             /\ Started(c) )
           => ( /\ pc[c] = "raised"
                /\ result[c] = ValueError
                /\ layers[c] = <<>> )
        /\ pc[c] = "raised"
           => ( /\ call[c].builder \in WithDropoutType
                /\ call[c].dropoutType \notin {"Dropout", "SpatialDropout2D"}
                /\ layers[c] = <<>> )

C1_Witness ==
    /\ pc["a"] = "raised"
    /\ call["a"].builder = "EEGNet_fusion"
    /\ call["a"].dropoutType = "AlphaDropout"
    /\ result["a"].kind = "ValueError"

\* The node a returned Model puts out.
OutputNode(c) == layers[c][result[c].outputs[1]]

\* C2: the one output node of every returned graph is a softmax over a dense
\* layer of exactly nb_classes units (an Activation('softmax') node fed by the
\* Dense node, or the Dense node's own softmax activation), and the output
\* vector has nb_classes entries.
C2_OutputIsSoftmaxOverClasses ==
    \A c \in Calls :
        Done(c) =>
            /\ result[c].kind = "Model"
            /\ Len(result[c].outputs) = 1
            /\ result[c].outputs[1] = Len(layers[c])
            /\ LET out == OutputNode(c)
               IN  /\ out.shape = <<call[c].nb_classes>>
                   /\ \/ /\ out.op = "Activation"
                         /\ out.activation = "softmax"
                         /\ Len(out.in) = 1
                         /\ layers[c][out.in[1]].op = "Dense"
                         /\ layers[c][out.in[1]].activation = "linear"
                         /\ layers[c][out.in[1]].filters = call[c].nb_classes
                      \/ /\ out.op = "Dense"
                         /\ out.activation = "softmax"
                         /\ out.filters = call[c].nb_classes

C2_Witness ==
    /\ Done("a")
    /\ call["a"].builder = "EEGNet"
    /\ call["a"].cpu
    /\ call["a"].nb_classes = 2
    /\ OutputNode("a").shape = <<2>>

(***************************************************************************)
(* The geometry table of a call: the kernel, stride and pool tuples its    *)
(* layout branch bound, by the names the code gives them.                  *)
(***************************************************************************)
Reverse(s) == [i \in 1..Len(s) |-> s[Len(s) + 1 - i]]

TupleNames ==
    {"conv_filters", "conv_filters2", "conv_filters3",
     "conv_strides", "conv_strides2", "conv_strides3",
     "depth_filters", "pool_size", "pool_size2", "pool", "strides",
     "separable_filters", "separable_filters2", "separable_filters3"}

TableBound(c) == "input_shape" \in DOMAIN frame[c]

TableNames(c) == TupleNames \cap DOMAIN frame[c]

\* The two calls are the same call but for the layout: c1 cpu=True, c2 cpu=False.
LayoutTwins(c1, c2) ==
    /\ call[c1].builder \in WithLayout
    /\ call[c1].cpu
    /\ call[c2] = [call[c1] EXCEPT !.cpu = FALSE]

\* C3: for one builder and the same arguments, the input shape and every
\* kernel, stride and pool tuple chosen under cpu=True is the tuple chosen
\* under cpu=False with its axes permuted as the input shape's are (reversed).
C3_LayoutTablesArePermutations ==
    \A c1, c2 \in Calls :
        (LayoutTwins(c1, c2) /\ TableBound(c1) /\ TableBound(c2)) =>
            /\ frame[c1].input_shape = Reverse(frame[c2].input_shape)
            /\ TableNames(c1) = TableNames(c2)
            /\ \A n \in TableNames(c1) : frame[c1][n] = Reverse(frame[c2][n])

\* The position, among the axes a kernel tuple spans, of the axis of length n
\* of the call's input shape.
AxisOf(c, n) ==
    LET sp == Spatial(frame[c].input_shape, DataFormat(Cpu(c)))
    IN  CHOOSE i \in 1..Len(sp) : sp[i] = n

SamplesAxis(c) == AxisOf(c, call[c].Samples)

ChansAxis(c) == AxisOf(c, call[c].Chans)

\* The names of the tuples that are windows along time, and of those that
\* span the channels, in the builders whose kernels are one-dimensional.
TemporalNames(b) ==
    CASE b \in {"EEGNet", "EEGNet_SSVEP"} ->
            {"conv_filters", "pool_size", "pool_size2", "separable_filters"}
      [] b = "EEGNet_fusion" ->
            {"conv_filters", "conv_filters2", "conv_filters3", "pool_size", "pool_size2",
             "separable_filters", "separable_filters2", "separable_filters3"}
      [] b = "DeepConvNet" -> {"conv_filters", "pool", "strides"}
      [] b = "ShallowConvNet" -> {"conv_filters", "pool_size", "strides"}
      [] OTHER -> {}

ChannelNames(b) ==
    CASE b \in {"EEGNet", "EEGNet_SSVEP", "EEGNet_fusion"} -> {"depth_filters"}
      [] b \in {"DeepConvNet", "ShallowConvNet"} -> {"conv_filters2"}
      [] OTHER -> {}

\* The tuples of the call's table, and the all-ones stride a convolution
\* without strides has.
OwnTuples(c) ==
    {frame[c][n] : n \in TableNames(c)} \cup {Ones(frame[c][n]) : n \in TableNames(c)}

HasWindow(node) ==
    node.op \in {"Conv2D", "Conv3D", "DepthwiseConv2D", "SeparableConv2D",
                 "AveragePooling2D", "MaxPooling2D"}

\* The table the builder of c would choose under the other layout.
OtherTable(c) ==
    LET f == [call[c] EXCEPT !.cpu = ~call[c].cpu]
    IN  CASE call[c].builder = "ConvNet2D" -> ConvNet2D_table(f)
          [] call[c].builder = "ConvNet3D" -> ConvNet3D_table(f)
          [] call[c].builder = "ConvNet3D_2" -> ConvNet3D_2_table(f)

\* C4: a call uses one table: every window of its graph is a tuple of the
\* table its own layout chose, and the input node has that table's shape.  In
\* that table every temporal tuple has its extent on the axis that holds
\* Samples in the input shape and 1 on the axis that holds Chans, and every
\* cross-channel tuple has Chans on the Chans axis and 1 on the Samples axis;
\* where kernels span both axes (ConvNet2D and the 3D builders) the extents on
\* the Samples and the Chans axis are those of the other layout's table.
C4_OneTableInInputAxisOrder ==
    \A c \in Calls :
        (TableBound(c) /\ call[c].builder # "DeeperConvNet") =>
            LET b == call[c].builder
                f == frame[c]
            IN  /\ \A i \in 1..Len(layers[c]) :
                      LET node == layers[c][i]
                      IN  /\ node.op = "Input" => node.shape = f.input_shape
                          /\ HasWindow(node) =>
                                {node.kernel, node.strides} \subseteq OwnTuples(c)
                /\ \A n \in TemporalNames(b) : f[n][ChansAxis(c)] = 1
                /\ b \in {"EEGNet", "EEGNet_SSVEP"} =>
                      f.conv_filters[SamplesAxis(c)] = call[c].kernLength
                /\ \A n \in ChannelNames(b) :
                      /\ f[n][ChansAxis(c)] = call[c].Chans
                      /\ f[n][SamplesAxis(c)] = 1
                /\ b \in {"ConvNet2D", "ConvNet3D", "ConvNet3D_2"} =>
                      \A n \in TableNames(c) :
                          LET o == OtherTable(c)
                              k == Len(f[n])
                          IN  /\ f[n][SamplesAxis(c)] = o[n][k + 1 - SamplesAxis(c)]
                              /\ f[n][ChansAxis(c)] = o[n][k + 1 - ChansAxis(c)]

C4_Witness ==
    /\ Done("a")
    /\ call["a"].builder = "DeepConvNet"
    /\ call["a"].cpu
    /\ frame["a"].pool = <<2, 1>>
    /\ SamplesAxis("a") = 1
    /\ \E i \in 1..Len(layers["a"]) :
          layers["a"][i].op = "MaxPooling2D" /\ layers["a"][i].kernel = <<2, 1>>

(***************************************************************************)
(* Wiring                                                                  *)
(***************************************************************************)
\* The nodes of the graph L that node i is computed from, i included.
RECURSIVE Ancestors(_, _)
Ancestors(L, i) ==
    {i} \cup UNION {Ancestors(L, L[i].in[j]) : j \in 1..Len(L[i].in)}

InputsUnder(L, i) == {j \in Ancestors(L, i) : L[j].op = "Input"}

InputNodes(L) == {i \in 1..Len(L) : L[i].op = "Input"}

\* The nodes that are applied to node i.
Consumers(L, i) == {j \in 1..Len(L) : \E k \in 1..Len(L[j].in) : L[j].in[k] = i}

\* C5: EEGNet_fusion returns a graph with three input nodes, listed in the
\* order they were created; the k-th input feeds only the k-th branch, a
\* depthwise-separable chain that starts with a temporal convolution of width
\* 64, 96, 128 for k = 1, 2, 3 and ends in a Flatten; the flattened branches
\* are concatenated in the order 1, 2, 3 (branch 1 with 2, the result with 3);
\* the concatenation feeds the one Dense + softmax head (through a Flatten).
C5_FusionBranchesInOrder ==
    \A c \in Calls :
        (Done(c) /\ call[c].builder = "EEGNet_fusion") =>
            LET L     == layers[c]
                ins   == result[c].inputs
                out   == result[c].outputs[1]
                dense == L[out].in[1]
                flat  == L[dense].in[1]
                m2    == L[flat].in[1]
                m1    == L[m2].in[1]
                br    == <<L[m1].in[1], L[m1].in[2], L[m2].in[2]>>
                width == <<64, 96, 128>>
            IN  /\ Len(ins) = 3
                /\ ins[1] < ins[2] /\ ins[2] < ins[3]
                /\ InputNodes(L) = {ins[1], ins[2], ins[3]}
                /\ L[out].op = "Activation" /\ L[out].activation = "softmax"
                /\ L[dense].op = "Dense"
                /\ {i \in 1..Len(L) : L[i].op = "Dense"} = {dense}
                /\ L[flat].op = "Flatten"
                /\ L[m2].op = "Concatenate" /\ Len(L[m2].in) = 2
                /\ L[m1].op = "Concatenate" /\ Len(L[m1].in) = 2
                /\ \A k \in 1..3 :
                      /\ L[br[k]].op = "Flatten"
                      /\ InputsUnder(L, br[k]) = {ins[k]}
                      /\ \E j \in Ancestors(L, br[k]) : L[j].op = "DepthwiseConv2D"
                      /\ \E j \in Ancestors(L, br[k]) : L[j].op = "SeparableConv2D"
                      /\ \A j \in Consumers(L, ins[k]) :
                            /\ L[j].op = "Conv2D"
                            /\ L[j].kernel = <<1, width[k]>>
                      /\ Consumers(L, ins[k]) # {}

C5_Witness ==
    /\ Done("a")
    /\ call["a"].builder = "EEGNet_fusion"
    /\ result["a"].inputs = <<1, 15, 29>>
    /\ layers["a"][16].kernel = <<1, 96>>

\* The same call but for the dropout class: c1 'Dropout', c2 'SpatialDropout2D'.
DropoutTwins(c1, c2) ==
    /\ call[c1].builder \in WithDropoutType
    /\ call[c1].dropoutType = "Dropout"
    /\ call[c2] = [call[c1] EXCEPT !.dropoutType = "SpatialDropout2D"]

\* C6: with the other arguments equal, a build with 'Dropout' and a build with
\* 'SpatialDropout2D' both go through (neither raises), and the two graphs are
\* the same node for node, inputs and outputs included, except that where one
\* has a Dropout node the other has a SpatialDropout2D node of the same rate
\* on the same input.
C6_DropoutVariantsDifferOnlyInDropout ==
    \A c1, c2 \in Calls :
        DropoutTwins(c1, c2) =>
            /\ pc[c1] # "raised" /\ pc[c2] # "raised"
            /\ (Done(c1) /\ Done(c2)) =>
                  /\ result[c1] = result[c2]
                  /\ result[c1].kind = "Model"
                  /\ Len(layers[c1]) = Len(layers[c2])
                  /\ \A i \in 1..Len(layers[c1]) :
                        /\ layers[c1][i].op # "SpatialDropout2D"
                        /\ layers[c2][i].op # "Dropout"
                        /\ layers[c2][i] =
                              IF layers[c1][i].op = "Dropout"
                              THEN [layers[c1][i] EXCEPT !.op = "SpatialDropout2D"]
                              ELSE layers[c1][i]

C6_Witness ==
    /\ DropoutTwins("a", "b")
    /\ call["a"].builder = "EEGNet_fusion"
    /\ Done("a") /\ Done("b")
    /\ layers["a"][8].op = "Dropout"
    /\ layers["b"][8].op = "SpatialDropout2D"

SpatialConvs(c) ==
    LET L == layers[c]
    IN  {i \in 1..Len(L) :
            \/ L[i].op = "DepthwiseConv2D"
            \/ /\ call[c].builder \in {"DeepConvNet", "ShallowConvNet"}
               /\ L[i].op = "Conv2D"
               /\ L[L[i].in[1]].op = "Conv2D"
               /\ L[L[L[i].in[1]].in[1]].op = "Input"}

SpatialBuilders ==
    {"EEGNet", "EEGNet_SSVEP", "EEGNet_fusion", "DeepConvNet", "ShallowConvNet"}

\* The length of the Chans axis of the output of node i.
ChansExtent(c, i) == Spatial(layers[c][i].shape, DataFormat(Cpu(c)))[ChansAxis(c)]

SamplesExtent(c, i) == Spatial(layers[c][i].shape, DataFormat(Cpu(c)))[SamplesAxis(c)]

\* C8: in both layouts the cross-channel convolution of EEGNet, EEGNet_SSVEP,
\* each EEGNet_fusion branch, DeepConvNet and ShallowConvNet has a kernel of
\* Chans on the Chans axis and 1 on the Samples axis, unit stride and no
\* padding, on an input whose Chans axis has length Chans, so its output has
\* length 1 on the Chans axis; a finished graph has one per branch.
C8_SpatialKernelSpansChannelsOnce ==
    \A c \in Calls :
        call[c].builder \in SpatialBuilders =>
            /\ \A i \in SpatialConvs(c) :
                  LET node == layers[c][i]
                  IN  /\ node.kernel[ChansAxis(c)] = call[c].Chans
                      /\ node.kernel[SamplesAxis(c)] = 1
                      /\ node.strides = <<1, 1>>
                      /\ node.padding = "valid"
                      /\ ChansExtent(c, node.in[1]) = call[c].Chans
                      /\ ChansExtent(c, i) = 1
                      /\ SamplesExtent(c, i) = SamplesExtent(c, node.in[1])
            /\ Done(c) =>
                  Cardinality(SpatialConvs(c)) = Len(result[c].inputs)

C8_Witness ==
    /\ Done("a")
    /\ call["a"].builder = "EEGNet"
    /\ call["a"].cpu
    /\ call["a"].Chans = 3
    /\ layers["a"][4].op = "DepthwiseConv2D"
    /\ layers["a"][4].kernel = <<1, 3>>
    /\ layers["a"][3].shape = <<call["a"].Samples, 3, 8>>
    /\ layers["a"][4].shape = <<call["a"].Samples, 1, 16>>

\* The average-pooling nodes of the graph of c under node i, in creation order.
PoolsUnder(c, i) ==
    LET L == layers[c]
        S == {j \in Ancestors(L, i) : L[j].op = "AveragePooling2D"}
    IN  <<CHOOSE j \in S : \A k \in S : j <= k, CHOOSE j \in S : \A k \in S : k <= j>>

\* C9: under cpu=False the Block 1 and Block 2 average pools of EEGNet,
\* EEGNet_SSVEP and each EEGNet_fusion branch have windows 4 and 8 along time,
\* and the temporal length that reaches Flatten is (Samples div 4) div 8.
C9_DefaultLayoutPoolsBy4And8 ==
    \A c \in Calls :
        (Done(c) /\ call[c].builder \in WithDropoutType /\ ~Cpu(c)) =>
            \A i \in 1..Len(layers[c]) :
                (layers[c][i].op = "Flatten"
                    /\ layers[c][layers[c][i].in[1]].op # "Concatenate") =>
                    LET p == PoolsUnder(c, i)
                    IN  /\ layers[c][p[1]].kernel = <<1, 4>>
                        /\ layers[c][p[2]].kernel = <<1, 8>>
                        /\ SamplesExtent(c, layers[c][i].in[1])
                              = (call[c].Samples \div 4) \div 8

(***************************************************************************)
(* DeepConvNet as a sequence of stages.                                    *)
(***************************************************************************)
Ops(L) == [i \in 1..Len(L) |-> L[i].op]

RECURSIVE Where(_, _)
\* The positions of the sequence L whose node is of class op, in order.
Where(L, op) ==
    IF L = <<>> THEN <<>>
    ELSE LET n == Len(L)
             front == Where(SubSeq(L, 1, n - 1), op)
         IN  IF L[n].op = op THEN Append(front, n) ELSE front

DeepConvNet_done(c) == Done(c) /\ call[c].builder = "DeepConvNet"

\* What every stage of DeepConvNet ends with, after its convolutions at
\* positions up to i: normalization (epsilon 1e-5, momentum 0.1), ELU, max
\* pooling with stride equal to its window, dropout at the call's rate.
StageTailAfter(c, i) ==
    LET L == layers[c]
    IN  /\ L[i + 1].op = "BatchNormalization"
        /\ L[i + 1].epsilon = 1 /\ L[i + 1].momentum = 10
        /\ L[i + 2].op = "Activation" /\ L[i + 2].activation = "elu"
        /\ L[i + 3].op = "MaxPooling2D"
        /\ L[i + 3].strides = L[i + 3].kernel
        /\ L[i + 3].kernel = frame[c].pool
        /\ L[i + 4].op = "Dropout" /\ L[i + 4].rate = call[c].dropoutRate
        /\ \A k \in 1..4 : L[i + k].in = <<i + k - 1>>

\* C10 as stated: four stages of filter counts 25, 50, 100, 200, each of two
\* unbiased norm-constrained convolutions followed by the stage tail.
C10_EachStageTwoUnbiasedConvs ==
    \A c \in Calls :
        DeepConvNet_done(c) =>
            LET L == layers[c]
                convs == Where(L, "Conv2D")
            IN  /\ Len(convs) = 8
                /\ [k \in 1..Len(convs) |-> L[convs[k]].filters]
                      = <<25, 25, 50, 50, 100, 100, 200, 200>>
                /\ \A k \in 1..Len(convs) :
                      /\ ~L[convs[k]].use_bias
                      /\ L[convs[k]].constraint > 0
                /\ \A s \in 1..4 : StageTailAfter(c, convs[2 * s])

\* C10, amended: four stages of filter counts 25, 50, 100, 200 in that order;
\* the first is two norm-constrained convolutions (the temporal kernel, then
\* the kernel spanning the channel axis), each later one is one
\* norm-constrained convolution with the temporal kernel; the convolutions
\* keep their bias; every stage ends with normalization (epsilon 1e-5,
\* momentum 0.1), ELU, max pooling whose stride equals its window, dropout.
C10_FourStagesOneConvAfterFirst ==
    \A c \in Calls :
        DeepConvNet_done(c) =>
            LET L == layers[c]
                convs == Where(L, "Conv2D")
                last == <<convs[2], convs[3], convs[4], convs[5]>>
            IN  /\ Ops(L) = <<"Input",
                              "Conv2D", "Conv2D",
                              "BatchNormalization", "Activation", "MaxPooling2D", "Dropout",
                              "Conv2D",
                              "BatchNormalization", "Activation", "MaxPooling2D", "Dropout",
                              "Conv2D",
                              "BatchNormalization", "Activation", "MaxPooling2D", "Dropout",
                              "Conv2D",
                              "BatchNormalization", "Activation", "MaxPooling2D", "Dropout",
                              "Flatten", "Dense", "Activation">>
                /\ Len(convs) = 5
                /\ [k \in 1..Len(convs) |-> L[convs[k]].filters] = <<25, 25, 50, 100, 200>>
                /\ \A k \in 1..Len(convs) :
                      /\ L[convs[k]].use_bias
                      /\ L[convs[k]].constraint = 200
                      /\ L[convs[k]].padding = "valid"
                      /\ L[convs[k]].in = <<convs[k] - 1>>
                      /\ L[convs[k]].kernel =
                            IF k = 2 THEN frame[c].conv_filters2 ELSE frame[c].conv_filters
                /\ frame[c].conv_filters[SamplesAxis(c)] = 5
                /\ frame[c].conv_filters[ChansAxis(c)] = 1
                /\ frame[c].conv_filters2[ChansAxis(c)] = call[c].Chans
                /\ \A s \in 1..4 : StageTailAfter(c, last[s])

C10_Witness ==
    /\ DeepConvNet_done("a")
    /\ call["a"].cpu
    /\ Len(layers["a"]) = 25
    /\ layers["a"][8].filters = 50
    /\ layers["a"][9].epsilon = 1
    /\ layers["a"][8].use_bias

\* The nodes of call c that apply the function f as an activation.
ActivationNodes(c, f) ==
    {i \in 1..Len(layers[c]) :
        layers[c][i].op = "Activation" /\ layers[c][i].activation = f}

\* C11: whatever x the log of ShallowConvNet is called with (zero and
\* negative numbers included), the value handed to K.log is x clipped into
\* [1e-7, 10000] (x itself inside the interval, the nearer end outside it),
\* so it is positive and bounded and K.log returns a finite number between
\* log 1e-7 and log 10000; in the graph the one log node takes the average
\* pooling of the square node and is consumed by the dropout node only.
C11_LogIsClippedAndAfterPooling ==
    \A c \in Calls :
        /\ ( call[c].builder = "log" /\ pc[c] \in {"clipped", "done"} )
           => LET x == call[c].x
                  y == frame[c].clipped
              IN  /\ y.sign = 1
                  /\ ~Less(y, min_value)
                  /\ ~Less(max_value, y)
                  /\ y = ( IF Less(x, min_value) THEN min_value
                           ELSE IF Less(max_value, x) THEN max_value
                           ELSE x )
                  /\ Done(c) => /\ result[c].kind = "finite"
                                /\ result[c].decade \in -7..4
        /\ ( call[c].builder = "ShallowConvNet" /\ Started(c) )
           => /\ \A i \in ActivationNodes(c, "log") :
                    /\ Len(layers[c][i].in) = 1
                    /\ LET pool == layers[c][layers[c][i].in[1]]
                       IN  /\ pool.op = "AveragePooling2D"
                           /\ Len(pool.in) = 1
                           /\ pool.in[1] \in ActivationNodes(c, "square")
                    /\ \A j \in 1..Len(layers[c]) :
                          (\E k \in 1..Len(layers[c][j].in) : layers[c][j].in[k] = i)
                              => layers[c][j].op = "Dropout"
                    /\ \E j \in 1..Len(layers[c]) :
                          layers[c][j].op = "Dropout" /\ layers[c][j].in = <<i>>
              /\ pc[c] \in {"head", "done"} => Cardinality(ActivationNodes(c, "log")) = 1

C11_Witness ==
    /\ Done("a")
    /\ Done("b")
    /\ call["b"].x.sign = -1
    /\ frame["b"].clipped = min_value
    /\ result["b"].kind = "finite"
    /\ ActivationNodes("a", "log") # {}

\* The Dense node that feeds the softmax Activation node a call returns.
DenseHead(c) == layers[c][OutputNode(c).in[1]]

NormConstrainedHeads ==
    {"EEGNet", "EEGNet_SSVEP", "EEGNet_fusion", "DeepConvNet", "ShallowConvNet"}

\* C12 as stated: in EEGNet, EEGNet_SSVEP, EEGNet_fusion, DeepConvNet and
\* ShallowConvNet, in every layout, the dense layer that feeds the softmax
\* carries a max-norm constraint on its kernel.
C12_NamedDenseHeadsConstrained ==
    \A c \in Calls :
        ( Done(c) /\ call[c].builder \in NormConstrainedHeads )
            => /\ DenseHead(c).op = "Dense"
               /\ DenseHead(c).constraint > 0

\* C12: in every layout the dense layer that feeds the softmax carries a
\* max-norm constraint on its kernel in EEGNet and EEGNet_fusion (the bound
\* is the caller's norm_rate) and in DeepConvNet and ShallowConvNet (the
\* bound is 0.5); the dense layer of EEGNet_SSVEP carries none.
C12_DenseHeadsConstrainedButSSVEP ==
    \A c \in Calls :
        ( Done(c) /\ call[c].builder \in NormConstrainedHeads )
            => /\ OutputNode(c).op = "Activation"
               /\ DenseHead(c).op = "Dense"
               /\ DenseHead(c).constraint =
                     ( CASE call[c].builder \in {"EEGNet", "EEGNet_fusion"} ->
                                call[c].norm_rate
                         [] call[c].builder \in {"DeepConvNet", "ShallowConvNet"} -> 50
                         [] OTHER -> 0 )
               /\ call[c].builder # "EEGNet_SSVEP" => DenseHead(c).constraint > 0

C12_Witness ==
    /\ Done("a")
    /\ call["a"].builder = "ShallowConvNet"
    /\ call["a"].cpu
    /\ DenseHead("a").op = "Dense"
    /\ DenseHead("a").constraint = 50

\* The builders that pass an axis to BatchNormalization and have a layout flag.
ExplicitAxisBuilders == {"EEGNet", "EEGNet_SSVEP", "DeepConvNet", "ShallowConvNet"}

\* The axis of the input tensor (the batch axis is 0) that holds the singleton
\* of input_shape: the first after the batch in (1, Chans, Samples), the last
\* in (Samples, Chans, 1).
FeatureMapAxis(c) == IF Cpu(c) THEN Len(frame[c].input_shape) ELSE 1

\* The axis of the input tensor that holds Samples.
SamplesTensorAxis(c) == IF Cpu(c) THEN 1 ELSE Len(frame[c].input_shape)

\* C13: in both layouts every BatchNormalization node that is given an axis
\* (EEGNet, EEGNet_SSVEP, DeepConvNet, ShallowConvNet) normalizes along the
\* feature-map axis of the chosen layout, the axis of the singleton of
\* input_shape, and never along the Samples axis.
C13_NormalizationAlongFeatureMapAxis ==
    \A c \in Calls :
        ( call[c].builder \in ExplicitAxisBuilders /\ Started(c) )
            => \A i \in 1..Len(layers[c]) :
                  ( layers[c][i].op = "BatchNormalization" /\ layers[c][i].axis # -1 )
                      => /\ layers[c][i].axis = FeatureMapAxis(c)
                         /\ layers[c][i].axis # SamplesTensorAxis(c)

\* The dropout nodes of call c.
DropoutNodes(c) ==
    {i \in 1..Len(layers[c]) : layers[c][i].op \in {"Dropout", "SpatialDropout2D"}}

\* C14: every builder has a dropoutRate parameter, and every dropout node a
\* call creates has the rate the caller passed as dropoutRate (so two builds
\* that differ only in dropoutRate differ at every dropout node).
C14_EveryDropoutUsesDropoutRate ==
    \A c \in Calls :
        ( call[c].builder \in Builders /\ Started(c) )
            => \A i \in DropoutNodes(c) : layers[c][i].rate = call[c].dropoutRate

\* The length the claim gives an axis of length n after a window of k with
\* stride s: ceil(n / s) when padded 'same', floor((n - k) / s) + 1 otherwise.
ExtentAfter(n, k, s, padding) ==
    IF padding = "same" THEN 0 - ((0 - n) \div s) ELSE ((n - k) \div s) + 1

\* C15: a builder called with the default Chans, Samples and Chunks, in
\* either layout, gives every convolution and pooling node along every
\* spatial axis the extent floor((n - k) / s) + 1 (ceil(n / s) when padded
\* 'same') of its input's extent n, every such extent is at least 1, no node
\* has an empty axis, and the vector a Flatten node hands on is not empty.
C15_DefaultExtentsStayPositive ==
    \A c \in Calls :
        LET L  == layers[c]
            df == DataFormat(Cpu(c))
        IN  \A i \in 1..Len(L) :
                /\ \A k \in 1..Len(L[i].shape) : L[i].shape[k] >= 1
                /\ HasWindow(L[i]) =>
                      LET in  == Spatial(L[L[i].in[1]].shape, df)
                          out == Spatial(L[i].shape, df)
                      IN  /\ Len(out) = Len(in)
                          /\ \A k \in 1..Len(out) :
                                /\ out[k] = ExtentAfter(in[k], L[i].kernel[k],
                                                        L[i].strides[k], L[i].padding)
                                /\ out[k] >= 1
                /\ L[i].op = "Flatten" =>
                      /\ L[i].shape = <<Product(L[L[i].in[1]].shape)>>
                      /\ L[i].shape[1] >= 1

C15_Witness ==
    /\ Done("a")
    /\ call["a"].builder = "ConvNet3D"
    /\ ~call["a"].cpu
    /\ call["a"].Chans = 64 /\ call["a"].Chunks = 8 /\ call["a"].Samples = 80
    /\ \E i \in 1..Len(layers["a"]) :
          /\ layers["a"][i].op = "Conv3D"
          /\ layers["a"][i].shape = <<64, 7, 1, 4>>
    /\ \E i \in 1..Len(layers["a"]) :
          /\ layers["a"][i].op = "Flatten"
          /\ layers["a"][i].shape = <<1792>>

====
